---------------------------- MODULE Spec2Model ----------------------------
(***************************************************************************)
(* Model of the order checkout, cart, product soft-delete and review       *)
(* rating handlers of the FastAPI shop (src/app/routers).                  *)
(*                                                                         *)
(* The database is the committed state (products, cart_items, orders,      *)
(* reviews).  Every request runs in its own session: what it has read is   *)
(* kept in sess[s] until its commit, and its writes become visible to the  *)
(* other sessions at the commit (PostgreSQL READ COMMITTED, the default).  *)
(* Money is counted in hundredths (10.00 is 1000), ratings as well.        *)
(***************************************************************************)
EXTENDS Integers, Sequences, FiniteSets, TLC

(***************************************************************************)
(* Bounds of the model.                                                    *)
(***************************************************************************)
MaxQty      == 2    \* largest quantity a cart payload carries
InitStock   == 3    \* stock of every product in the initial catalogue
MaxRequests == 5    \* requests the application serves in one run

Sessions    == {1, 2}        \* database sessions (requests in flight)
SeqSessions == {1}           \* one request at a time
Products    == {1, 2}
Users       == {1, 2, 3, 4, 5}
Buyers      == {1, 2}        \* the users that shop
SeqBuyers   == {1}           \* the user that shops in the sequential runs
ConcProducts == {1}          \* the product the interleaved requests compete for
Quantities  == 1 .. MaxQty
Grades      == {1, 2}        \* grades the review payloads carry
Reviewers   == {1, 3}        \* users that post reviews: a buyer and a seller
Moderators  == {1, 5}        \* users that delete reviews: a buyer and the admin
ReviewIds   == 1 .. MaxRequests

\* a nullable column holds <<>> (None) or <<v>>
None    == << >>
Some(v) == << v >>
Val(x)  == x[1]

\* the role the authentication provider resolves for a user
Role(u) == CASE u \in {1, 2} -> "buyer"
             [] u \in {3, 4} -> "seller"
             [] OTHER        -> "admin"

\* prices of the initial catalogue: 10.00 and 5.50
InitPrice(p) == IF p = 1 THEN 1000 ELSE 550
\* product 1 belongs to seller 3, product 2 to seller 4
InitSeller(p) == IF p = 1 THEN 3 ELSE 4

VARIABLES
    products,     \* products table: id -> row
    cart_items,   \* cart_items table: set of rows
    cart_seq,     \* next value of the cart_items id sequence
    orders,       \* orders table with the owned order items, in creation order
    reviews,      \* reviews table, in creation order (id = position)
    sess,         \* per session: the request in flight and what it has read
    resp,         \* per session: the response of its last finished request
    served        \* number of requests accepted so far

vars == << products, cart_items, cart_seq, orders, reviews, sess, resp,
           served >>

\* a handler is entered: the request gets the first free session and the run
\* has requests left
Accept(s) ==
    /\ sess[s].pc = "idle"
    /\ \A o \in Sessions : o < s => sess[o].pc # "idle"
    /\ served < MaxRequests
    /\ served' = served + 1

----------------------------------------------------------------------------
(***************************************************************************)
(* Helpers                                                                 *)
(***************************************************************************)
RECURSIVE SeqSum(_)
SeqSum(q) == IF q = << >> THEN 0 ELSE Head(q) + SeqSum(Tail(q))

MinId(rows) == CHOOSE r \in rows : \A o \in rows : r.id <= o.id

\* .order_by(CartItemModel.id)
RECURSIVE OrderById(_)
OrderById(rows) ==
    IF rows = {} THEN << >>
    ELSE LET r == MinId(rows) IN << r >> \o OrderById(rows \ {r})

\* a session with no request in flight; the fields are what a handler keeps
\* between its reads and its commit
Idle == [pc |-> "idle", user |-> 0, product_id |-> 0, quantity |-> 0,
         row_id |-> 0, row_quantity |-> 0, order_items |-> << >>,
         total_amount |-> 0, loaded |-> << >>, grade |-> 0,
         review_id |-> 0, new_rating |-> None]

EmptyCartView == [items |-> << >>, total_quantity |-> 0, total_price |-> 0]

EmptyOrderView == [items |-> << >>, total_amount |-> 0]

\* a response: the error of the HTTPException (or "None"), the schema of the
\* body, and of the body the order with its id, the cart, or the ids of the
\* products it carries
Response(error) == [error |-> error, schema |-> "None", order_id |-> 0,
                    order |-> EmptyOrderView, cart |-> EmptyCartView,
                    product_ids |-> {}]

IsActive(p) == products[p].is_active = Some(TRUE)

----------------------------------------------------------------------------
(***************************************************************************)
(* carts.py                                                                *)
(***************************************************************************)
\* select(CartItemModel).where(user_id == u).order_by(id), each row with its
\* product loaded (selectinload)
UserCartRows(u) == OrderById({r \in cart_items : r.user_id = u})

\* _get_cart_item: the rows of (user, product); result.first()
_get_cart_item(u, p) == {r \in cart_items : r.user_id = u /\ r.product_id = p}

\* get_carts: the Cart schema built from the user's rows and their live products
CartView(u) ==
    LET items == UserCartRows(u)
        qty(i)   == items[i].quantity
        price(i) == LET pr == products[items[i].product_id].price
                    IN  items[i].quantity * (IF pr # None THEN Val(pr) ELSE 0)
    IN  [items          |-> items,
         total_quantity |-> SeqSum([i \in 1 .. Len(items) |-> qty(i)]),
         total_price    |-> SeqSum([i \in 1 .. Len(items) |-> price(i)])]

get_carts(s, u) ==
    /\ Accept(s)
    /\ resp' = [resp EXCEPT ![s] = 
                  [Response("None") EXCEPT
                      !.schema = "Cart", !.cart = CartView(u),
                      !.product_ids =
                          {CartView(u).items[i].product_id :
                              i \in 1 .. Len(CartView(u).items)}]]
    /\ UNCHANGED << products, cart_items, cart_seq, orders, reviews, sess >>


\* _ensure_product_available: the product exists and is_active == True
_ensure_product_available(p) == p \in Products /\ IsActive(p)

\* unique constraint (user_id, product_id) of the cart_items table
uq_cart_items_user_product(rows) ==
    \A a, b \in rows :
        (a.user_id = b.user_id /\ a.product_id = b.product_id) => a.id = b.id

\* add_item_to_cart up to its commit: the availability check and the read of
\* the (user, product) row
add_item_to_cart(s, u, p, q) ==
    /\ Accept(s)
    /\ IF ~ _ensure_product_available(p)
       THEN /\ resp' = [resp EXCEPT ![s] = Response("NotFound")]
            /\ UNCHANGED sess
       ELSE LET found == _get_cart_item(u, p) IN
            /\ sess' = [sess EXCEPT ![s] =
                   [Idle EXCEPT !.pc = "add_commit", !.user = u,
                        !.product_id = p, !.quantity = q,
                        !.row_id = IF found = {} THEN 0 ELSE MinId(found).id,
                        !.row_quantity =
                            IF found = {} THEN 0 ELSE MinId(found).quantity]]
            /\ UNCHANGED resp
    /\ UNCHANGED << products, cart_items, cart_seq, orders, reviews >>

\* the payload's quantity replaces the quantity of the row
AddedQuantity_Replaced(k, q) == q

\* the quantity add_item_to_cart writes to a row it found
AddedQuantity(k, q) == k + q

\* add_item_to_cart from "if cart_item" to the return: the row found is
\* written back with the quantity added, otherwise a row is inserted; commit
add_item_to_cart_commit(s) ==
    LET r == sess[s] IN
    /\ r.pc = "add_commit"
    /\ sess' = [sess EXCEPT ![s] = Idle]
    /\ IF r.row_id # 0
       THEN \* UPDATE cart_items SET quantity = ... WHERE id = row_id
            IF \E row \in cart_items : row.id = r.row_id
            THEN /\ cart_items' =
                      {IF row.id = r.row_id
                       THEN [row EXCEPT !.quantity =
                                 AddedQuantity(r.row_quantity, r.quantity)]
                       ELSE row : row \in cart_items}
                 /\ resp' = [resp EXCEPT ![s] = Response("None")]
                 /\ UNCHANGED cart_seq
            ELSE \* the row is gone: StaleDataError, nothing is committed
                 /\ resp' = [resp EXCEPT ![s] = Response("ServerError")]
                 /\ UNCHANGED << cart_items, cart_seq >>
       ELSE LET new == [id |-> cart_seq, user_id |-> r.user,
                        product_id |-> r.product_id, quantity |-> r.quantity]
            IN  /\ cart_seq' = cart_seq + 1
                /\ IF uq_cart_items_user_product(cart_items \cup {new})
                   THEN /\ cart_items' = cart_items \cup {new}
                        /\ resp' = [resp EXCEPT ![s] = Response("None")]
                   ELSE \* IntegrityError, nothing is committed
                        /\ resp' = [resp EXCEPT ![s] = Response("ServerError")]
                        /\ UNCHANGED cart_items
    /\ UNCHANGED << products, orders, reviews, served >>

\* update_cart_item up to its commit
update_cart_item(s, u, p, q) ==
    /\ Accept(s)
    /\ IF ~ _ensure_product_available(p)
       THEN /\ resp' = [resp EXCEPT ![s] = Response("NotFound")]
            /\ UNCHANGED sess
       ELSE LET found == _get_cart_item(u, p) IN
            IF found = {}
            THEN /\ resp' = [resp EXCEPT ![s] = Response("NotFound")]
                 /\ UNCHANGED sess
            ELSE /\ sess' = [sess EXCEPT ![s] =
                        [Idle EXCEPT !.pc = "update_commit", !.user = u,
                             !.product_id = p, !.quantity = q,
                             !.row_id = MinId(found).id,
                             !.row_quantity = MinId(found).quantity]]
                 /\ UNCHANGED resp
    /\ UNCHANGED << products, cart_items, cart_seq, orders, reviews >>

\* update_cart_item: cart_item.quantity = payload.quantity; commit
update_cart_item_commit(s) ==
    LET r == sess[s] IN
    /\ r.pc = "update_commit"
    /\ sess' = [sess EXCEPT ![s] = Idle]
    /\ IF \E row \in cart_items : row.id = r.row_id
       THEN /\ cart_items' =
                 {IF row.id = r.row_id
                  THEN [row EXCEPT !.quantity = r.quantity]
                  ELSE row : row \in cart_items}
            /\ resp' = [resp EXCEPT ![s] = Response("None")]
       ELSE /\ resp' = [resp EXCEPT ![s] = Response("ServerError")]
            /\ UNCHANGED cart_items
    /\ UNCHANGED << products, cart_seq, orders, reviews, served >>

\* remove_item_for_cart
remove_item_for_cart(s, u, p) ==
    /\ Accept(s)
    /\ LET found == _get_cart_item(u, p) IN
       IF found = {}
       THEN /\ resp' = [resp EXCEPT ![s] = Response("NotFound")]
            /\ UNCHANGED cart_items
       ELSE /\ cart_items' = cart_items \ {MinId(found)}
            /\ resp' = [resp EXCEPT ![s] = Response("None")]
    /\ UNCHANGED << products, cart_seq, orders, reviews, sess >>

\* clear_cart: delete(CartItemModel).where(user_id == u); commit
clear_cart(s, u) ==
    /\ Accept(s)
    /\ cart_items' = {r \in cart_items : r.user_id # u}
    /\ resp' = [resp EXCEPT ![s] = Response("None")]
    /\ UNCHANGED << products, cart_seq, orders, reviews, sess >>

----------------------------------------------------------------------------
(***************************************************************************)
(* orders.py                                                               *)
(***************************************************************************)
\* the unit price is read from the product of the item as it is now
OrderItemUnitPrice_Live(item, prods) == Val(prods[item.product_id].price)

\* the unit_price column of an order item, as the Order schema shows it
OrderItemUnitPrice(item, prods) == item.unit_price

\* the Order schema of a loaded order: items (product, quantity, unit_price,
\* total_price) and total_amount
OrderView(ords, prods, order_id) ==
    LET o == ords[order_id] IN
    [items |-> [i \in 1 .. Len(o.items) |->
                   [product_id  |-> o.items[i].product_id,
                    quantity    |-> o.items[i].quantity,
                    unit_price  |-> OrderItemUnitPrice(o.items[i], prods),
                    total_price |-> o.items[i].total_price]],
     total_amount |-> o.total_amount]

\* _load_order_with_items: the order of that id, or None
_load_order_with_items(order_id) ==
    IF order_id \in 1 .. Len(orders) THEN Some(orders[order_id]) ELSE None

\* get_order: the order, if it belongs to the current user
get_order(s, u, order_id) ==
    /\ Accept(s)
    /\ LET order == _load_order_with_items(order_id) IN
       IF order = None \/ Val(order).user_id # u
       THEN resp' = [resp EXCEPT ![s] = Response("NotFound")]
       ELSE resp' = [resp EXCEPT ![s] =
                [Response("None") EXCEPT
                    !.schema = "Order", !.order_id = order_id,
                    !.order = OrderView(orders, products, order_id)]]
    /\ UNCHANGED << products, cart_items, cart_seq, orders, reviews, sess >>

\* "if product is None or product.is_active is None"
ProductUnavailable(product) == product = None \/ Val(product).is_active = None

\* only an empty stock is refused
InsufficientStock_OnlyEmpty(product, cart_item) == product.stock = 0

\* "if product.stock < cart_item.quantity"
InsufficientStock(product, cart_item) == product.stock < cart_item.quantity

\* the line total forgets the quantity
LineTotal_UnitOnly(unit_price, quantity) == unit_price

\* "total_price = unit_price * cart_item.quantity"
LineTotal(unit_price, quantity) == unit_price * quantity

\* the body of "for cart_item in cart_items": acc carries the order items
\* appended so far, total_amount and the products of the session with their
\* stock as decremented so far
RECURSIVE CheckoutLoop(_, _)
CheckoutLoop(items, acc) ==
    IF items = << >> THEN acc
    ELSE
      LET cart_item == Head(items)
          product   == IF cart_item.product_id \in DOMAIN acc.loaded
                       THEN Some(acc.loaded[cart_item.product_id]) ELSE None
      IN
      IF ProductUnavailable(product)
      THEN [acc EXCEPT !.error = "ProductUnavailable"]
      ELSE IF InsufficientStock(Val(product), cart_item)
      THEN [acc EXCEPT !.error = "InsufficientStock"]
      ELSE
        LET unit_price == Val(product).price IN
        IF unit_price = None
        THEN [acc EXCEPT !.error = "PriceMissing"]
        ELSE
          LET total_price == LineTotal(Val(unit_price), cart_item.quantity)
              order_item  == [product_id  |-> cart_item.product_id,
                              quantity    |-> cart_item.quantity,
                              unit_price  |-> Val(unit_price),
                              total_price |-> total_price]
          IN CheckoutLoop(Tail(items),
                 [acc EXCEPT
                    !.total_amount = @ + total_price,
                    !.order_items  = Append(@, order_item),
                    !.loaded[cart_item.product_id].stock =
                        @ - cart_item.quantity])

\* the decrements made before the failing line are written to the table
Rollback_Flushed(rows, loaded) ==
    [p \in DOMAIN rows |->
        IF p \in DOMAIN loaded THEN loaded[p] ELSE rows[p]]

\* an HTTPException leaves the handler before db.commit(): of the products
\* the session changed (loaded) nothing reaches the table (rows)
Rollback(rows, loaded) == rows

\* checkout_order, lines 32-68: load the cart with its products, build the
\* order in the session; an HTTPException ends the request with nothing written
checkout_order(s, u) ==
    /\ Accept(s)
    /\ LET cart_items_all == Some(UserCartRows(u))      \* cart_result.all()
           rows   == Val(cart_items_all)
           loaded == [p \in {rows[i].product_id : i \in 1 .. Len(rows)}
                        |-> products[p]]
           out    == CheckoutLoop(rows,
                        [error |-> "None", order_items |-> << >>,
                         total_amount |-> 0, loaded |-> loaded])
       IN
       IF cart_items_all = None                          \* "is None"
       THEN /\ resp' = [resp EXCEPT ![s] = Response("EmptyCart")]
            /\ UNCHANGED << sess, products >>
       ELSE IF out.error # "None"
       THEN /\ resp' = [resp EXCEPT ![s] = Response(out.error)]
            /\ products' = Rollback(products, out.loaded)
            /\ UNCHANGED sess
       ELSE /\ sess' = [sess EXCEPT ![s] =
                   [Idle EXCEPT !.pc = "checkout_commit", !.user = u,
                        !.order_items = out.order_items,
                        !.total_amount = out.total_amount,
                        !.loaded = out.loaded]]
            /\ UNCHANGED << resp, products >>
    /\ UNCHANGED << cart_items, cart_seq, orders, reviews >>

\* the cart is not cleared
DeleteCartItems_Kept(rows, u) == rows

\* the rows "delete(CartItemModel).where(user_id == u)" leaves in the table
DeleteCartItems(rows, u) == {r \in rows : r.user_id # u}

\* checkout_order, lines 68-77: the flush writes the order with its items and
\* the stock of the products the loop changed, the cart rows of the user are
\* deleted, commit; the created order is returned
checkout_order_commit(s) ==
    LET r     == sess[s]
        dirty == {r.order_items[i].product_id : i \in 1 .. Len(r.order_items)}
        order == [user_id |-> r.user, items |-> r.order_items,
                  total_amount |-> r.total_amount]
    IN
    /\ r.pc = "checkout_commit"
    /\ orders' = Append(orders, order)
    /\ products' = [p \in Products |->
                      IF p \in dirty
                      THEN [products[p] EXCEPT !.stock = r.loaded[p].stock]
                      ELSE products[p]]
    /\ cart_items' = DeleteCartItems(cart_items, r.user)
    /\ sess' = [sess EXCEPT ![s] = Idle]
    /\ resp' = [resp EXCEPT ![s] =
                  [Response("None") EXCEPT
                      !.schema = "Order", !.order_id = Len(orders'),
                      !.order = OrderView(orders', products', Len(orders'))]]
    /\ UNCHANGED << cart_seq, reviews, served >>

----------------------------------------------------------------------------
(***************************************************************************)
(* products.py                                                             *)
(***************************************************************************)
\* Depends(get_current_seller): the current user has the role seller
get_current_seller(u) == Role(u) = "seller"

\* the ownership check is skipped
NotOwnProduct_Skipped(u, p) == FALSE

\* db_product.seller_id != current_user.id
NotOwnProduct(u, p) == products[p].seller_id # u

\* delete_product: soft delete by the owning seller (the category of the
\* catalogue's products is active)
delete_product(s, u, p) ==
    /\ Accept(s)
    /\ IF ~ get_current_seller(u)
       THEN /\ resp' = [resp EXCEPT ![s] = Response("Forbidden")]
            /\ UNCHANGED products
       ELSE IF ~ IsActive(p)
       THEN /\ resp' = [resp EXCEPT ![s] = Response("NotFound")]
            /\ UNCHANGED products
       ELSE IF NotOwnProduct(u, p)
       THEN /\ resp' = [resp EXCEPT ![s] = Response("Forbidden")]
            /\ UNCHANGED products
       ELSE /\ products' = [products EXCEPT ![p].is_active = Some(FALSE)]
            /\ resp' = [resp EXCEPT ![s] = Response("None")]
    /\ UNCHANGED << cart_items, cart_seq, orders, reviews, sess >>

\* the category of the catalogue's products, and the active categories
CategoryOf(p) == 1
ActiveCategories == {1}

\* get_all_products: the filters (None: not supplied) over the active
\* products; the first page holds the whole catalogue
get_all_products(s, min_price, max_price, in_stock, seller_id) ==
    /\ Accept(s)
    /\ IF min_price # None /\ max_price # None
           /\ Val(min_price) > Val(max_price)
       THEN resp' = [resp EXCEPT ![s] = Response("ValidationError")]
       ELSE LET items ==
                  {p \in Products :
                     /\ products[p].is_active = Some(TRUE)
                     /\ min_price # None =>
                            Val(products[p].price) >= Val(min_price)
                     /\ max_price # None =>
                            Val(products[p].price) <= Val(max_price)
                     /\ in_stock # None =>
                            IF Val(in_stock) THEN products[p].stock > 0
                            ELSE products[p].stock = 0
                     /\ seller_id # None =>
                            products[p].seller_id = Val(seller_id)}
            IN  resp' = [resp EXCEPT ![s] =
                    [Response("None") EXCEPT !.schema = "ProductList",
                                             !.product_ids = items]]
    /\ UNCHANGED << products, cart_items, cart_seq, orders, reviews, sess >>

\* get_products_by_category: the active products in stock of an active
\* category
get_products_by_category(s, category_id) ==
    /\ Accept(s)
    /\ IF category_id \notin ActiveCategories
       THEN resp' = [resp EXCEPT ![s] = Response("NotFound")]
       ELSE resp' = [resp EXCEPT ![s] =
                [Response("None") EXCEPT
                    !.schema = "Products",
                    !.product_ids =
                        {p \in Products :
                            /\ CategoryOf(p) = category_id
                            /\ products[p].is_active = Some(TRUE)
                            /\ products[p].stock > 0}]]
    /\ UNCHANGED << products, cart_items, cart_seq, orders, reviews, sess >>

\* get_product: the product, if it is active and in stock
get_product(s, p) ==
    /\ Accept(s)
    /\ IF ~ (p \in Products /\ products[p].is_active = Some(TRUE)
                /\ products[p].stock > 0)
       THEN resp' = [resp EXCEPT ![s] = Response("NotFound")]
       ELSE IF CategoryOf(p) \notin ActiveCategories
       THEN resp' = [resp EXCEPT ![s] = Response("BadRequest")]
       ELSE resp' = [resp EXCEPT ![s] =
                [Response("None") EXCEPT !.schema = "Product",
                                         !.product_ids = {p}]]
    /\ UNCHANGED << products, cart_items, cart_seq, orders, reviews, sess >>

\* update_product: the owning seller replaces the fields of ProductCreate
update_product(s, u, p, price, stock) ==
    /\ Accept(s)
    /\ IF ~ get_current_seller(u)
       THEN /\ resp' = [resp EXCEPT ![s] = Response("Forbidden")]
            /\ UNCHANGED products
       ELSE IF ~ IsActive(p)
       THEN /\ resp' = [resp EXCEPT ![s] = Response("NotFound")]
            /\ UNCHANGED products
       ELSE IF NotOwnProduct(u, p)
       THEN /\ resp' = [resp EXCEPT ![s] = Response("Forbidden")]
            /\ UNCHANGED products
       ELSE /\ products' = [products EXCEPT ![p].price = Some(price),
                                            ![p].stock = stock]
            /\ resp' = [resp EXCEPT ![s] = Response("None")]
    /\ UNCHANGED << cart_items, cart_seq, orders, reviews, sess >>

----------------------------------------------------------------------------
(***************************************************************************)
(* reviews.py                                                              *)
(***************************************************************************)
\* the hundredths are cut off instead of rounded
Round2_Truncated(sum, n) == (100 * sum) \div n

\* round(avg_grade, 2) of the Decimal sum / n, in hundredths: to the nearest
\* hundredth, a tie to the even one
Round2(sum, n) ==
    LET q   == (100 * sum) \div n
        rem == (100 * sum) % n
    IN  IF 2 * rem > n THEN q + 1
        ELSE IF 2 * rem < n THEN q
        ELSE IF q % 2 = 0 THEN q ELSE q + 1

\* the reviews "Review.product_id == product_id, Review.is_active.is_(True)"
\* selects from the rows the session sees
ActiveReviews(rows, product_id) ==
    {i \in 1 .. Len(rows) :
        rows[i].product_id = product_id /\ rows[i].is_active}

\* recalculate_product_rating: the value written to Product.rating
recalculate_product_rating(rows, product_id) ==
    LET selected  == ActiveReviews(rows, product_id)
        n         == Cardinality(selected)
        sum       == SeqSum([i \in 1 .. Len(rows) |->
                               IF i \in selected THEN rows[i].grade ELSE 0])
        avg_grade == IF n = 0 THEN None ELSE Some(<< sum, n >>)
    IN  IF avg_grade # None
        THEN Some(Round2(Val(avg_grade)[1], Val(avg_grade)[2]))
        ELSE None

\* db.add(new_review): the autoflush of the next query inserts the row, so
\* the session sees the table with the new review
WithNewReview(rows, review) == Append(rows, review)

\* review.is_active = False: the autoflush of the next query writes it
WithReviewDeleted(rows, review_id) ==
    [rows EXCEPT ![review_id].is_active = FALSE]

\* get_reviews_for_product: the active reviews of an active product
get_reviews_for_product(s, p) ==
    /\ Accept(s)
    /\ IF ~ (p \in Products /\ products[p].is_active = Some(TRUE))
       THEN resp' = [resp EXCEPT ![s] = Response("NotFound")]
       ELSE resp' = [resp EXCEPT ![s] =
                [Response("None") EXCEPT
                    !.schema = "Reviews",
                    !.product_ids =
                        {reviews[i].product_id :
                            i \in ActiveReviews(reviews, p)}]]
    /\ UNCHANGED << products, cart_items, cart_seq, orders, reviews, sess >>

\* create_review up to its commit: role and product checks, the new review,
\* the average the session computes
create_review(s, u, p, grade) ==
    /\ Accept(s)
    /\ IF Role(u) # "buyer"
       THEN /\ resp' = [resp EXCEPT ![s] = Response("Forbidden")]
            /\ UNCHANGED sess
       ELSE IF ~ IsActive(p)
       THEN /\ resp' = [resp EXCEPT ![s] = Response("NotFound")]
            /\ UNCHANGED sess
       ELSE LET new_review == [user_id |-> u, product_id |-> p,
                               grade |-> grade, is_active |-> TRUE]
            IN
            /\ sess' = [sess EXCEPT ![s] =
                   [Idle EXCEPT !.pc = "create_review_commit", !.user = u,
                        !.product_id = p, !.grade = grade,
                        !.new_rating = recalculate_product_rating(
                            WithNewReview(reviews, new_review), p)]]
            /\ UNCHANGED resp
    /\ UNCHANGED << products, cart_items, cart_seq, orders, reviews >>

\* create_review: the UPDATE of Product.rating and the commit
create_review_commit(s) ==
    LET r == sess[s] IN
    /\ r.pc = "create_review_commit"
    /\ reviews' = Append(reviews, [user_id |-> r.user,
                                   product_id |-> r.product_id,
                                   grade |-> r.grade, is_active |-> TRUE])
    /\ products' = [products EXCEPT ![r.product_id].rating = r.new_rating]
    /\ sess' = [sess EXCEPT ![s] = Idle]
    /\ resp' = [resp EXCEPT ![s] =
                  [Response("None") EXCEPT !.schema = "Review"]]
    /\ UNCHANGED << cart_items, cart_seq, orders, served >>

\* delete_review up to its commit: role check, the active review, the flag
\* flip, the average the session computes
delete_review(s, u, review_id) ==
    /\ Accept(s)
    /\ IF Role(u) # "admin"
       THEN /\ resp' = [resp EXCEPT ![s] = Response("Forbidden")]
            /\ UNCHANGED sess
       ELSE IF ~ (review_id \in 1 .. Len(reviews)
                    /\ reviews[review_id].is_active)
       THEN /\ resp' = [resp EXCEPT ![s] = Response("NotFound")]
            /\ UNCHANGED sess
       ELSE LET p == reviews[review_id].product_id IN
            /\ sess' = [sess EXCEPT ![s] =
                   [Idle EXCEPT !.pc = "delete_review_commit", !.user = u,
                        !.product_id = p, !.review_id = review_id,
                        !.new_rating = recalculate_product_rating(
                            WithReviewDeleted(reviews, review_id), p)]]
            /\ UNCHANGED resp
    /\ UNCHANGED << products, cart_items, cart_seq, orders, reviews >>

\* delete_review: the UPDATEs of the review and of Product.rating, the commit
delete_review_commit(s) ==
    LET r == sess[s] IN
    /\ r.pc = "delete_review_commit"
    /\ reviews' = [reviews EXCEPT ![r.review_id].is_active = FALSE]
    /\ products' = [products EXCEPT ![r.product_id].rating = r.new_rating]
    /\ sess' = [sess EXCEPT ![s] = Idle]
    /\ resp' = [resp EXCEPT ![s] = Response("None")]
    /\ UNCHANGED << cart_items, cart_seq, orders, served >>

----------------------------------------------------------------------------
(***************************************************************************)
(* Specifications                                                          *)
(***************************************************************************)
Init ==
    /\ products = [p \in Products |->
                     [price |-> Some(InitPrice(p)), stock |-> InitStock,
                      is_active |-> Some(TRUE), rating |-> None,
                      seller_id |-> InitSeller(p)]]
    /\ cart_items = {}
    /\ cart_seq = 1
    /\ orders = << >>
    /\ reviews = << >>
    /\ sess = [s \in Sessions |-> Idle]
    /\ resp = [s \in Sessions |-> Response("None")]
    /\ served = 0

\* the shop, one request at a time
Next ==
    \E s \in SeqSessions :
        \/ \E u \in SeqBuyers, p \in Products, q \in Quantities :
               add_item_to_cart(s, u, p, q)
        \/ add_item_to_cart_commit(s)
        \/ \E u \in SeqBuyers, p \in Products, q \in Quantities :
               update_cart_item(s, u, p, q)
        \/ update_cart_item_commit(s)
        \/ \E u \in SeqBuyers, p \in Products : remove_item_for_cart(s, u, p)
        \/ \E u \in SeqBuyers : clear_cart(s, u)
        \/ \E u \in SeqBuyers : get_carts(s, u)
        \/ \E u \in SeqBuyers : checkout_order(s, u)
        \/ checkout_order_commit(s)
        \/ \E u \in Users, p \in Products : delete_product(s, u, p)

Spec == Init /\ [][Next]_vars

\* the shop with the requests of two sessions interleaved at their awaits
NextConc ==
    \E s \in Sessions :
        \/ \E u \in Buyers, p \in ConcProducts, q \in Quantities :
               add_item_to_cart(s, u, p, q)
        \/ add_item_to_cart_commit(s)
        \/ \E u \in Buyers, p \in ConcProducts, q \in Quantities :
               update_cart_item(s, u, p, q)
        \/ update_cart_item_commit(s)
        \/ \E u \in Buyers : checkout_order(s, u)
        \/ checkout_order_commit(s)
        \/ \E p \in ConcProducts : delete_product(s, InitSeller(p), p)

SpecConc == Init /\ [][NextConc]_vars

\* prices and stocks the sellers' update payloads carry
NewPrices == {700}
NewStocks == {0, InitStock}
OrderIds  == {1, 2}          \* order ids the get_order requests ask for

\* the shop and its sellers, one request at a time
NextCatalog ==
    \E s \in SeqSessions :
        \/ \E u \in SeqBuyers, p \in Products, q \in Quantities :
               add_item_to_cart(s, u, p, q)
        \/ add_item_to_cart_commit(s)
        \/ \E u \in SeqBuyers : checkout_order(s, u)
        \/ checkout_order_commit(s)
        \/ \E u \in Buyers, order_id \in OrderIds : get_order(s, u, order_id)
        \/ \E p \in Products, price \in NewPrices, stock \in NewStocks :
               update_product(s, InitSeller(p), p, price, stock)
        \/ \E p \in Products : delete_product(s, InitSeller(p), p)

SpecCatalog == Init /\ [][NextCatalog]_vars

\* filters the listing requests carry (None: not supplied)
PriceFilters  == {None, Some(600), Some(1000)}
StockFilters  == {None, Some(TRUE), Some(FALSE)}
SellerFilters == {None, Some(3)}
CategoryIds   == {1, 2}

\* the customer-facing reads next to the writes that feed them, one request
\* at a time
NextBrowse ==
    \E s \in SeqSessions :
        \/ \E u \in SeqBuyers, p \in Products :
               add_item_to_cart(s, u, p, 1)
        \/ add_item_to_cart_commit(s)
        \/ \E u \in SeqBuyers, p \in Products : create_review(s, u, p, 1)
        \/ create_review_commit(s)
        \/ \E p \in Products : delete_product(s, InitSeller(p), p)
        \/ \E u \in SeqBuyers : get_carts(s, u)
        \/ \E min_price \in PriceFilters, max_price \in PriceFilters,
              in_stock \in StockFilters, seller_id \in SellerFilters :
               get_all_products(s, min_price, max_price, in_stock, seller_id)
        \/ \E category_id \in CategoryIds :
               get_products_by_category(s, category_id)
        \/ \E p \in Products : get_product(s, p)
        \/ \E p \in Products : get_reviews_for_product(s, p)

SpecBrowse == Init /\ [][NextBrowse]_vars

\* the callers of the guarded mutations: a buyer, the two sellers, the admin
Callers == {1, 3, 4, 5}

\* the guarded mutations with callers of every role, one request at a time
NextAuth ==
    \E s \in SeqSessions :
        \/ \E u \in Callers, p \in Products : create_review(s, u, p, 1)
        \/ create_review_commit(s)
        \/ \E u \in Callers, review_id \in OrderIds :
               delete_review(s, u, review_id)
        \/ delete_review_commit(s)
        \/ \E u \in Callers, p \in Products, price \in NewPrices,
              stock \in NewStocks : update_product(s, u, p, price, stock)
        \/ \E u \in Callers, p \in Products : delete_product(s, u, p)

SpecAuth == Init /\ [][NextAuth]_vars

\* the reviews, one request at a time
NextReview ==
    \E s \in SeqSessions :
        \/ \E u \in Reviewers, p \in Products, grade \in Grades :
               create_review(s, u, p, grade)
        \/ create_review_commit(s)
        \/ \E u \in Moderators, review_id \in ReviewIds :
               delete_review(s, u, review_id)
        \/ delete_review_commit(s)
        \/ \E p \in Products : delete_product(s, InitSeller(p), p)

SpecReview == Init /\ [][NextReview]_vars

\* the reviews with the requests of two sessions interleaved at their awaits
NextReviewConc ==
    \E s \in Sessions :
        \/ \E u \in Reviewers, p \in ConcProducts, grade \in Grades :
               create_review(s, u, p, grade)
        \/ create_review_commit(s)
        \/ \E u \in Moderators, review_id \in ReviewIds :
               delete_review(s, u, review_id)
        \/ delete_review_commit(s)

SpecReviewConc == Init /\ [][NextReviewConc]_vars

----------------------------------------------------------------------------
(***************************************************************************)
(* Properties of the checkout and the cart, one request at a time (Spec)   *)
(***************************************************************************)
\* the step in which session s ends a checkout request of user u: the load
\* raised an HTTPException, or the commit returned the order
EndsCheckout(s, u) ==
    \/ checkout_order(s, u) /\ sess'[s].pc = "idle"
    \/ sess[s].pc = "checkout_commit" /\ sess[s].user = u
          /\ checkout_order_commit(s)

DbUnchanged == UNCHANGED << products, cart_items, orders >>

CartRowsOf(u) == {r \in cart_items : r.user_id = u}

\* C1: a checkout of a user whose cart has no items returns the EmptyCart
\* error, creates no order, changes no product and leaves the cart as it was.
C1_EmptyCartRejected ==
    [][\A s \in SeqSessions, u \in Buyers :
          (EndsCheckout(s, u) /\ CartRowsOf(u) = {})
              => (resp'[s].error = "EmptyCart" /\ DbUnchanged)]_vars

\* C2: a checkout of a cart with a line whose product has been soft-deleted
\* returns ProductUnavailable, creates no order, decrements no stock and
\* leaves the cart unchanged.
C2_DeactivatedProductRejected ==
    [][\A s \in SeqSessions, u \in Buyers :
          (EndsCheckout(s, u)
             /\ \E r \in CartRowsOf(u) : ~ IsActive(r.product_id))
              => (resp'[s].error = "ProductUnavailable" /\ DbUnchanged)]_vars

\* C3: a checkout of a cart with a line (the first or a later one) whose
\* quantity exceeds the stock of its product returns InsufficientStock,
\* creates no order and leaves every stock level and the cart unchanged.
C3_InsufficientStockAtomic ==
    [][\A s \in SeqSessions, u \in Buyers :
          (EndsCheckout(s, u)
             /\ \E r \in CartRowsOf(u) :
                    r.quantity > products[r.product_id].stock)
              => (resp'[s].error = "InsufficientStock" /\ DbUnchanged)]_vars

\* C3 witness: the last request was refused with InsufficientStock on a cart
\* whose first line was in stock and whose second line was not.
C3_Witness ==
    /\ sess[1].pc = "idle"
    /\ resp[1].error = "InsufficientStock"
    /\ \E u \in Buyers :
          LET rows == UserCartRows(u) IN
          /\ Len(rows) >= 2
          /\ rows[1].quantity <= products[rows[1].product_id].stock
          /\ rows[2].quantity > products[rows[2].product_id].stock
          /\ \A p \in Products : products[p].stock = InitStock

\* quantity the cart of u holds of product p
CartQuantity(u, p) ==
    LET rows == UserCartRows(u)
    IN  SeqSum([i \in 1 .. Len(rows) |->
                   IF rows[i].product_id = p THEN rows[i].quantity ELSE 0])

ValidCart(u) ==
    /\ CartRowsOf(u) # {}
    /\ \A r \in CartRowsOf(u) :
          /\ IsActive(r.product_id)
          /\ products[r.product_id].stock >= r.quantity
          /\ products[r.product_id].price # None

\* C4: a checkout of a cart of N >= 1 valid lines adds one order with one
\* item per line (the product, the quantity, the product's price as unit
\* price, unit price x quantity as total), whose total_amount is the sum of
\* the line totals; the stock of each product goes down by the quantity of
\* its line and no other stock changes.
C4_OrderMatchesCart ==
    [][\A s \in SeqSessions, u \in Buyers :
          (EndsCheckout(s, u) /\ ValidCart(u)) =>
             LET lines == UserCartRows(u)
                 price(i) == Val(products[lines[i].product_id].price)
                 o     == orders'[Len(orders')]
             IN
             /\ resp'[s].error = "None"
             /\ Len(orders') = Len(orders) + 1
             /\ SubSeq(orders', 1, Len(orders)) = orders
             /\ o.user_id = u
             /\ Len(o.items) = Len(lines)
             /\ \A i \in 1 .. Len(lines) :
                   /\ o.items[i].product_id = lines[i].product_id
                   /\ o.items[i].quantity = lines[i].quantity
                   /\ o.items[i].unit_price = price(i)
                   /\ o.items[i].total_price = price(i) * lines[i].quantity
             /\ o.total_amount =
                   SeqSum([i \in 1 .. Len(lines) |->
                              price(i) * lines[i].quantity])
             /\ \A p \in Products :
                   products'[p].stock = products[p].stock - CartQuantity(u, p)
      ]_vars

\* C4 witness: the cart [A at 10.00 x 2, B at 5.50 x 1] was checked out:
\* total 25.50, A.stock down by 2, B.stock down by 1.
C4_Witness ==
    /\ Len(orders) = 1
    /\ resp[1].schema = "Order"
    /\ Len(orders[1].items) = 2
    /\ orders[1].total_amount = 2550
    /\ products[1].stock = InitStock - 2
    /\ products[2].stock = InitStock - 1

\* C5: after a successful checkout the cart of the user is empty, and a
\* listing of the cart right after it returns no items, total_quantity 0 and
\* total_price 0.
C5_CartEmptyAfterCheckout ==
    [][\A s \in SeqSessions, u \in Buyers :
          /\ (EndsCheckout(s, u) /\ resp'[s].error = "None")
                => (CartView(u))' = EmptyCartView
          /\ (get_carts(s, u) /\ resp[s].schema = "Order"
                /\ orders[resp[s].order_id].user_id = u)
                => resp'[s].cart = EmptyCartView
      ]_vars

\* C5 witness: three requests, an add, a checkout that ordered the line and a
\* listing that returned the empty cart.
C5_Witness ==
    /\ served = 3
    /\ Len(orders) = 1
    /\ orders[1].items # << >>
    /\ resp[1].schema = "Cart"
    /\ resp[1].cart = EmptyCartView

\* C10: there is at most one cart row per (user, product), and an add of q
\* of a product the cart holds k of leaves the one row with quantity k + q
\* (a first add leaves one row with quantity q).
C10_AddIsAdditive ==
    [][/\ \A u \in Buyers, p \in Products :
             Cardinality((_get_cart_item(u, p))') <= 1
       /\ \A s \in SeqSessions, u \in Buyers, p \in Products :
             (sess[s].pc = "add_commit" /\ sess[s].user = u
                /\ sess[s].product_id = p /\ add_item_to_cart_commit(s)) =>
                \E r \in cart_items' :
                   /\ (_get_cart_item(u, p))' = {r}
                   /\ r.quantity = CartQuantity(u, p) + sess[s].quantity
      ]_vars

\* C10 witness: two requests, both adds of product 1 by user 1 (1 + 2 or
\* 2 + 1), left a single row with quantity 3.
C10_Witness ==
    /\ served = 2
    /\ sess[1].pc = "idle"
    /\ cart_items = {[id |-> 1, user_id |-> 1, product_id |-> 1,
                      quantity |-> 3]}

----------------------------------------------------------------------------
(***************************************************************************)
(* Properties of interleaved requests (SpecConc)                           *)
(***************************************************************************)
RECURSIVE ItemsQuantity(_, _)
ItemsQuantity(items, p) ==
    IF items = << >> THEN 0
    ELSE (IF Head(items).product_id = p THEN Head(items).quantity ELSE 0)
         + ItemsQuantity(Tail(items), p)

\* sum of the quantities of all order items created for product p
Sold(p) ==
    SeqSum([i \in 1 .. Len(orders) |-> ItemsQuantity(orders[i].items, p)])

\* C6: in every committed state, whatever the interleaving of cart adds,
\* cart updates, checkouts and product soft-deletions, every product has
\* stock >= 0.
C6_StockNeverNegative ==
    \A p \in Products : products[p].stock >= 0

\* C6 witness: two checkouts were served that together ordered more of a
\* product than its stock, and the stock is not negative.
C6_Witness ==
    \E p \in Products :
        /\ Len(orders) = 2
        /\ Sold(p) > InitStock
        /\ products[p].stock >= 0

\* C7: with no restock, the quantities of all order items created for a
\* product never sum to more than the product's initial stock, and the stock
\* is the initial stock minus that sum.
C7_NoOversell ==
    \A p \in Products :
        /\ Sold(p) <= InitStock
        /\ products[p].stock = InitStock - Sold(p)

----------------------------------------------------------------------------
(***************************************************************************)
(* Properties of the rating (SpecReview, SpecReviewConc)                   *)
(***************************************************************************)
\* the committed active reviews of product p
CommittedActive(p) ==
    {i \in 1 .. Len(reviews) : reviews[i].product_id = p /\ reviews[i].is_active}

GradeSum(p) ==
    SeqSum([i \in 1 .. Len(reviews) |->
               IF i \in CommittedActive(p) THEN reviews[i].grade ELSE 0])

\* products[p].rating is the mean of the grades of the committed active
\* reviews of p rounded to hundredths (a hundredth nearest to the mean), and
\* unset when there is none
RatingIsMean(p) ==
    LET n == Cardinality(CommittedActive(p)) IN
    IF n = 0 THEN products[p].rating = None
    ELSE /\ products[p].rating # None
         /\ LET d == Val(products[p].rating) * n - 100 * GradeSum(p)
            IN  2 * d <= n /\ 2 * (0 - d) <= n

\* C8: a review creation adds the review as an active one and a review
\* soft-deletion clears is_active of the review, and after either, run
\* without interleaved requests, the rating of the reviewed product is the
\* mean of the grades of its active reviews rounded to 2 decimals, unset
\* when no active review remains.
C8_RatingRecomputed ==
    [][\A s \in SeqSessions, p \in Products :
          /\ (sess[s].pc = "create_review_commit" /\ sess[s].product_id = p
                /\ create_review_commit(s))
                => /\ Len(reviews') = Len(reviews) + 1
                   /\ reviews'[Len(reviews')].is_active
                   /\ reviews'[Len(reviews')].product_id = p
                   /\ reviews'[Len(reviews')].grade = sess[s].grade
                   /\ RatingIsMean(p)'
          /\ (sess[s].pc = "delete_review_commit" /\ sess[s].product_id = p
                /\ delete_review_commit(s))
                => /\ ~ reviews'[sess[s].review_id].is_active
                   /\ RatingIsMean(p)'
      ]_vars

\* C8 witness: product 1 has three active reviews with grades summing to 5
\* and the rating 1.67; the only review of product 2 was soft-deleted and its
\* rating is unset.
C8_Witness ==
    /\ Cardinality(CommittedActive(1)) = 3
    /\ GradeSum(1) = 5
    /\ products[1].rating = Some(167)
    /\ \E i \in 1 .. Len(reviews) : reviews[i].product_id = 2
    /\ CommittedActive(2) = {}
    /\ products[2].rating = None

\* C9: in every committed state, also after review mutations of the same
\* product that ran as overlapping transactions, the rating of every product
\* is the rounded mean of the grades of its committed active reviews.
C9_RatingNeverStale ==
    \A p \in Products : RatingIsMean(p)

----------------------------------------------------------------------------
(***************************************************************************)
(* Properties of the orders under catalogue changes (SpecCatalog)          *)
(***************************************************************************)
\* C11: the unit_price of an order item is the price the product had at the
\* checkout; a product update or soft-deletion leaves the items (unit_price,
\* total_price, quantity) and the total_amount of every existing order as
\* they were, and total_price = unit_price x quantity holds of every item.
C11_PriceSnapshot ==
    [][/\ \A s \in SeqSessions :
             (sess[s].pc = "checkout_commit" /\ checkout_order_commit(s)) =>
                LET v == OrderView(orders', products', Len(orders')) IN
                \A i \in 1 .. Len(v.items) :
                    v.items[i].unit_price =
                        Val(products[v.items[i].product_id].price)
       /\ \A order_id \in 1 .. Len(orders) :
             OrderView(orders', products', order_id)
                 = OrderView(orders, products, order_id)
       /\ \A order_id \in 1 .. Len(orders') :
             LET v == OrderView(orders', products', order_id) IN
             /\ \A i \in 1 .. Len(v.items) :
                   v.items[i].total_price =
                       v.items[i].unit_price * v.items[i].quantity
             /\ v.total_amount =
                   SeqSum([i \in 1 .. Len(v.items) |-> v.items[i].total_price])
      ]_vars

\* C11 witness: an order of product 1 at 10.00 was read back with unit price
\* 10.00 after the seller had changed the price to 7.00 and soft-deleted the
\* product.
C11_Witness ==
    /\ products[1].price = Some(700)
    /\ products[1].is_active = Some(FALSE)
    /\ resp[1].schema = "Order"
    /\ resp[1].order_id = 1
    /\ Len(resp[1].order.items) = 1
    /\ resp[1].order.items[1].product_id = 1
    /\ resp[1].order.items[1].unit_price = 1000
    /\ resp[1].order.total_amount = 1000 * resp[1].order.items[1].quantity

----------------------------------------------------------------------------
(***************************************************************************)
(* Properties of the customer-facing reads (SpecBrowse)                    *)
(***************************************************************************)
CustomerSchemas == {"ProductList", "Product", "Products", "Reviews", "Cart"}

\* C12: none of the product listing, the product lookup, the products of a
\* category, the reviews of a product and the cart listing returns a product
\* (or a line or review carrying one) that is not active when the request
\* is served.
C12_InactiveExcluded ==
    [][\A s \in SeqSessions :
          (served' = served + 1 /\ resp'[s].schema \in CustomerSchemas)
              => \A p \in resp'[s].product_ids : IsActive(p)]_vars

----------------------------------------------------------------------------
(***************************************************************************)
(* Properties of the role and ownership checks (SpecAuth)                  *)
(***************************************************************************)
\* the request of session s is refused with one of the errors and has no
\* effect: nothing is left to commit and no table changes
Refused(s, errors) ==
    /\ resp'[s].error \in errors
    /\ sess'[s].pc = "idle"
    /\ reviews' = reviews
    /\ products' = products

\* the mutations that are carried out come from the role, or the owner, they
\* are reserved to
OnlyAuthorised(s) ==
    /\ create_review_commit(s) => Role(sess[s].user) = "buyer"
    /\ delete_review_commit(s) => Role(sess[s].user) = "admin"
    /\ \A u \in Callers, p \in Products :
          /\ (delete_product(s, u, p) /\ products' # products)
                => Role(u) = "seller" /\ products[p].seller_id = u
          /\ \A price \in NewPrices, stock \in NewStocks :
                (update_product(s, u, p, price, stock)
                   /\ resp'[s].error = "None")
                => Role(u) = "seller" /\ products[p].seller_id = u

\* the request of a caller without the role: create_review by a caller who is
\* no buyer, delete_review by one who is no admin
WrongRole(s) ==
    \/ \E u \in Callers, p \in Products :
          Role(u) # "buyer" /\ create_review(s, u, p, 1)
    \/ \E u \in Callers, review_id \in OrderIds :
          Role(u) # "admin" /\ delete_review(s, u, review_id)

\* update_product or delete_product of product p by a caller who is not the
\* seller owning it
NotOwnerRequest(s, p) ==
    \E u \in Callers :
        /\ ~ (Role(u) = "seller" /\ products[p].seller_id = u)
        /\ \/ delete_product(s, u, p)
           \/ \E price \in NewPrices, stock \in NewStocks :
                 update_product(s, u, p, price, stock)

\* C13 as stated: reviews are created by buyers only and soft-deleted by
\* admins only, products are updated and soft-deleted by their owning seller
\* only; every other caller gets Forbidden, and the reviews, the ratings and
\* the products are unchanged.
C13_OthersForbidden ==
    [][\A s \in SeqSessions :
          /\ OnlyAuthorised(s)
          /\ WrongRole(s) => Refused(s, {"Forbidden"})
          /\ \A p \in Products :
                NotOwnerRequest(s, p) => Refused(s, {"Forbidden"})]_vars

\* C13 amended: reviews are created by buyers only and soft-deleted by admins
\* only, products are updated and soft-deleted by their owning seller only;
\* every other caller is refused and the reviews, the ratings and the products
\* are unchanged: with Forbidden, except that a seller who does not own the
\* product gets NotFound when the product is soft-deleted.
C13_OthersRefused ==
    [][\A s \in SeqSessions :
          /\ OnlyAuthorised(s)
          /\ WrongRole(s) => Refused(s, {"Forbidden"})
          /\ \A p \in Products :
                NotOwnerRequest(s, p) =>
                    /\ Refused(s, {"Forbidden", "NotFound"})
                    /\ resp'[s].error = "NotFound" => ~ IsActive(p)]_vars

\* a request was refused with Forbidden after a review was posted and
\* product 1 was soft-deleted by its owner, product 2 keeping its price
C13_Witness ==
    /\ resp[1].error = "Forbidden"
    /\ Len(reviews) = 1
    /\ products[1].is_active = Some(FALSE)
    /\ products[2].is_active = Some(TRUE)
    /\ products[2].price = Some(InitPrice(2))

----------------------------------------------------------------------------
(***************************************************************************)
(* Checkout against interleaved cart writes (SpecConc)                     *)
(***************************************************************************)
\* the cart rows the step removes from the table
DeletedRows == cart_items \ cart_items'

\* C14: every cart line the checkout deletes, with every unit of its quantity,
\* is an item of the order it creates, also when an add-to-cart or a cart
\* update of the same user commits between the checkout's load of the cart
\* and its delete of the user's cart rows (the loaded cart held a line).
C14_DeletesOnlyConverted ==
    [][\A s \in Sessions :
          (sess[s].order_items # << >> /\ checkout_order_commit(s))
              => \A r \in DeletedRows :
                    \E i \in 1 .. Len(sess[s].order_items) :
                        /\ sess[s].order_items[i].product_id = r.product_id
                        /\ sess[s].order_items[i].quantity = r.quantity]_vars

=============================================================================
